---- MODULE Spec2Model ----
(***************************************************************************)
(* Model of src/main.py: the in-memory DataStore (messages, embeddings),    *)
(* its rebuild fetch_and_index, the retrieval retrieve_relevant_context,    *)
(* and the two endpoints read_root (GET /) and ask_question (POST /ask).    *)
(*                                                                         *)
(* Texts that the program only stores and concatenates are strings.        *)
(* Embedding vectors are two-dimensional integer vectors, and a cosine      *)
(* similarity is kept as an exact rational, so that comparisons and ties    *)
(* are exact.  The generator's output is a sequence of characters, so that  *)
(* strip() is computed.                                                     *)
(***************************************************************************)
EXTENDS Integers, Sequences, FiniteSets, TLC

VARIABLES
    messages,    \* DataStore.messages: sequence of "user_name: message" strings
    embeddings,  \* DataStore.embeddings: [none |-> TRUE] is None, else its rows
    pc,          \* position of the fetch_and_index coroutine
    prev,        \* (messages, embeddings) as they were when the call in flight began
    outcome,     \* how the last fetch_and_index call ended
    raw,         \* the records (raw_data['items']) the latest call got, if it
                 \* has not failed, and whether the call before got the same
    last         \* what the latest reader (retrieve, GET /, POST /ask) got
                 \* from the index as it is now

vars == <<messages, embeddings, pc, prev, outcome, raw, last>>

----------------------------------------------------------------------------
(* Bounds of the model *)

\* longest list of raw records one fetch returns
MaxItems == 2

\* largest top_k a direct call of retrieve_relevant_context is given
MaxTopK == 2

----------------------------------------------------------------------------
(* Program constants *)

\* top_k: int = 10
DefaultTopK == 10

\* similarities[idx] > 0.3, kept as the fraction 3/10
ThresholdNum == 3
ThresholdDen == 10

\* status codes of the two HTTPExceptions, and of a normal response
StatusUnavailable == 503
StatusGenerationFailed == 500
StatusOK == 200

UnavailableDetail == "Service is unavailable. Data store is not initialized."
GenerationFailedDetail == "Error generating answer. Please check your GEMINI_API_KEY is valid."
NoMatchAnswer == <<"I could not find any relevant information in the member messages to answer this question.">>
TroubleAnswer == <<"I'm having trouble generating an answer. Please try rephrasing your question.">>

----------------------------------------------------------------------------
(* Inputs *)

\* raw records of the source API; a record may lack either field
RawRecords ==
    { [user_name |-> "Layla", message |-> "London trip"],
      [user_name |-> "Sam", message |-> "I like pizza"],
      [user_name |-> "Sam"],
      [message |-> "no sender"] }

RECURSIVE SeqsUpTo(_, _)
SeqsUpTo(S, n) ==
    IF n = 0 THEN { <<>> }
    ELSE LET shorter == SeqsUpTo(S, n - 1)
         IN  shorter \cup { Append(s, x) : s \in shorter, x \in S }

ItemLists == SeqsUpTo(RawRecords, MaxItems)

Questions == { "When is Layla's trip?", "Who likes pizza?", "Who is here?", "anything" }

TopKs == 0 .. MaxTopK

\* failures of the fetch that are httpx.RequestError (connection, timeout)
RequestErrors == { "ConnectError", "ReadTimeout" }

\* failures of the fetch that are not: raise_for_status, response.json()
OtherFetchErrors == { "HTTPStatusError", "JSONDecodeError" }

\* what the generation capability does with a prompt
GeneratorTexts == { <<" ", "Layla", " ", "London", "\n">>, <<" ", "\n">> }
GeneratorFailures == { "DeadlineExceeded", "PermissionDenied", "ValueError" }
GeneratorOutcomes ==
    { [raises |-> "", text |-> t] : t \in GeneratorTexts }
    \cup { [raises |-> e, text |-> <<>>] : e \in GeneratorFailures }

----------------------------------------------------------------------------
(* The embedding model (SentenceTransformer.encode) *)

\* encode of one text: same text, same vector; unknown text, the zero vector
embed(text) ==
    CASE text = "Layla: London trip" -> <<4, 3>>
      [] text = "Sam: I like pizza" -> <<0, 5>>
      [] text = "When is Layla's trip?" -> <<1, 0>>
      [] text = "Who likes pizza?" -> <<0, 1>>
      [] text = "Who is here?" -> <<1, 2>>
      [] text = "anything" -> <<-1, 0>>
      [] OTHER -> <<0, 0>>

\* self.model.encode(texts): one row per text, in the order of the texts
encode(texts) == [i \in 1 .. Len(texts) |-> embed(texts[i])]

\* self.embeddings = None
None == [none |-> TRUE, rows |-> <<>>]

\* self.embeddings = <an array of rows>
Array(rows) == [none |-> FALSE, rows |-> rows]

----------------------------------------------------------------------------
(* cosine_similarity, argsort and the slices of retrieve_relevant_context *)

Dot(a, b) == a[1] * b[1] + a[2] * b[2]

\* The cosine dot(a,b) / (|a| |b|), 0 when a norm is 0, kept exactly as the
\* fraction <<n, d>> = sign(dot) * dot^2 / (|a|^2 |b|^2), d > 0: the signed
\* square of the cosine, which orders as the cosine does.
Cosine(a, b) ==
    LET dot == Dot(a, b)
        norms == Dot(a, a) * Dot(b, b)
    IN  IF norms = 0 THEN <<0, 1>>
        ELSE <<(IF dot < 0 THEN -1 ELSE 1) * dot * dot, norms>>

\* cosine_similarity(question_embedding, self.embeddings)[0]
cosine_similarity(question_embedding, rows) ==
    [i \in 1 .. Len(rows) |-> Cosine(question_embedding, rows[i])]

\* s < t and s = t on these fractions
Less(s, t) == s[1] * t[2] < t[1] * s[2]
Same(s, t) == s[1] * t[2] = t[1] * s[2]

\* similarities[idx] > 0.3
AboveThreshold(s) ==
    s[1] * ThresholdDen * ThresholdDen > ThresholdNum * ThresholdNum * s[2]

Orders(n) ==
    { p \in [1 .. n -> 1 .. n] : \A i, j \in 1 .. n : i # j => p[i] # p[j] }

\* np.argsort(similarities): the positions in ascending order of similarity.
\* The default kind is quicksort, which is not stable: equal similarities
\* come out in whichever order the build's sort leaves them.
argsort(similarities) ==
    { p \in Orders(Len(similarities)) :
        \A i, j \in 1 .. Len(similarities) :
            i < j => ~Less(similarities[p[j]], similarities[p[i]]) }

\* a[start:] of Python for any integer start (a negative start counts from
\* the end, and -0 is 0)
SliceFrom(a, start) ==
    LET n == Len(a)
        from == IF start < 0 THEN (IF n + start < 0 THEN 0 ELSE n + start)
                ELSE (IF start > n THEN n ELSE start)
    IN  [i \in 1 .. n - from |-> a[from + i]]

\* a[::-1]
Reversed(a) == [i \in 1 .. Len(a) |-> a[Len(a) + 1 - i]]

\* the loop over top_k_indices: a message is added when its similarity is
\* above the threshold; self.messages[idx] raises IndexError past the end
RECURSIVE BuildContext(_, _, _, _, _)
BuildContext(top_k_indices, similarities, i, context, picked) ==
    IF i > Len(top_k_indices)
    THEN [raised |-> FALSE, context |-> context, picked |-> picked,
          scores |-> [j \in 1 .. Len(picked) |-> similarities[picked[j]]]]
    ELSE LET idx == top_k_indices[i]
         IN  IF AboveThreshold(similarities[idx])
             THEN IF idx > Len(messages)
                  THEN [raised |-> TRUE, context |-> "", picked |-> <<>>,
                        scores |-> <<>>]
                  ELSE BuildContext(top_k_indices, similarities, i + 1,
                                    context \o messages[idx] \o "\n",
                                    Append(picked, idx))
             ELSE BuildContext(top_k_indices, similarities, i + 1, context, picked)

\* DataStore.retrieve_relevant_context(question, top_k): the results it can
\* give on the current index (one for each order argsort can leave ties in).
\* picked are the positions (from 1) of the returned messages, in the order
\* of the context, and scores their similarities.
retrieve_relevant_context(question, top_k) ==
    IF embeddings.none \/ Len(embeddings.rows) = 0
    THEN { [raised |-> FALSE, context |-> "", picked |-> <<>>, scores |-> <<>>] }
    ELSE LET similarities == cosine_similarity(embed(question), embeddings.rows)
         IN  { BuildContext(Reversed(SliceFrom(order, -top_k)), similarities,
                            1, "", <<>>) : order \in argsort(similarities) }

----------------------------------------------------------------------------
(* POST /ask *)

Whitespace == { " ", "\n", "\t" }

RECURSIVE LStrip(_)
LStrip(text) ==
    IF text # <<>> /\ Head(text) \in Whitespace THEN LStrip(Tail(text)) ELSE text

\* str.strip()
Strip(text) == Reversed(LStrip(Reversed(LStrip(text))))

\* generate with the failure's own text put in the response
generate_leaking(question, context, generator) ==
    IF generator.raises # ""
    THEN [op |-> "ask", question |-> question, retrieved |-> TRUE,
          context |-> context, generated |-> 1, escaped |-> "",
          status |-> StatusGenerationFailed,
          detail |-> "Error generating answer: " \o generator.raises,
          answer |-> <<>>]
    ELSE LET answer == Strip(generator.text)
         IN  [op |-> "ask", question |-> question, retrieved |-> TRUE,
              context |-> context, generated |-> 1, escaped |-> "",
              status |-> StatusOK, detail |-> "",
              answer |-> IF answer = <<>> THEN TroubleAnswer ELSE answer]

\* generate without the substitution of lines 167-168
generate_unchecked(question, context, generator) ==
    IF generator.raises # ""
    THEN [op |-> "ask", question |-> question, retrieved |-> TRUE,
          context |-> context, generated |-> 1, escaped |-> "",
          status |-> StatusGenerationFailed, detail |-> GenerationFailedDetail,
          answer |-> <<>>]
    ELSE [op |-> "ask", question |-> question, retrieved |-> TRUE,
          context |-> context, generated |-> 1, escaped |-> "",
          status |-> StatusOK, detail |-> "",
          answer |-> Strip(generator.text)]

\* lines 159-177: the call of the generator and what becomes of its outcome
generate(question, context, generator) ==
    IF generator.raises # ""
    THEN [op |-> "ask", question |-> question, retrieved |-> TRUE,
          context |-> context, generated |-> 1, escaped |-> "",
          status |-> StatusGenerationFailed, detail |-> GenerationFailedDetail,
          answer |-> <<>>]
    ELSE LET answer == Strip(generator.text)
         IN  [op |-> "ask", question |-> question, retrieved |-> TRUE,
              context |-> context, generated |-> 1, escaped |-> "",
              status |-> StatusOK, detail |-> "",
              answer |-> IF answer = <<>> THEN TroubleAnswer ELSE answer]

\* ask_question without the return of line 142: an empty context goes to
\* the generator like any other
ask_question_always_generating(question, generator) ==
    IF messages = <<>>
    THEN { [op |-> "ask", question |-> question, retrieved |-> FALSE,
            context |-> "", generated |-> 0, escaped |-> "",
            status |-> StatusUnavailable, detail |-> UnavailableDetail,
            answer |-> <<>>] }
    ELSE { IF r.raised
           THEN [op |-> "ask", question |-> question, retrieved |-> TRUE,
                 context |-> "", generated |-> 0, escaped |-> "IndexError",
                 status |-> 0, detail |-> "", answer |-> <<>>]
           ELSE generate(question, r.context, generator)
           : r \in retrieve_relevant_context(question, DefaultTopK) }

\* ask_question without the check of lines 132-136
ask_question_unguarded(question, generator) ==
    { IF r.raised
      THEN [op |-> "ask", question |-> question, retrieved |-> TRUE,
            context |-> "", generated |-> 0, escaped |-> "IndexError",
            status |-> 0, detail |-> "", answer |-> <<>>]
      ELSE IF r.context = ""
      THEN [op |-> "ask", question |-> question, retrieved |-> TRUE,
            context |-> "", generated |-> 0, escaped |-> "",
            status |-> StatusOK, detail |-> "", answer |-> NoMatchAnswer]
      ELSE generate(question, r.context, generator)
      : r \in retrieve_relevant_context(question, DefaultTopK) }

\* ask_question(request), the generator doing `generator` if it is called:
\* the responses the handler can give on the current index
ask_question(question, generator) ==
    IF messages = <<>>
    THEN { [op |-> "ask", question |-> question, retrieved |-> FALSE,
            context |-> "", generated |-> 0, escaped |-> "",
            status |-> StatusUnavailable, detail |-> UnavailableDetail,
            answer |-> <<>>] }
    ELSE { IF r.raised
           THEN [op |-> "ask", question |-> question, retrieved |-> TRUE,
                 context |-> "", generated |-> 0, escaped |-> "IndexError",
                 status |-> 0, detail |-> "", answer |-> <<>>]
           ELSE IF r.context = ""
           THEN [op |-> "ask", question |-> question, retrieved |-> TRUE,
                 context |-> "", generated |-> 0, escaped |-> "",
                 status |-> StatusOK, detail |-> "", answer |-> NoMatchAnswer]
           ELSE generate(question, r.context, generator)
           : r \in retrieve_relevant_context(question, DefaultTopK) }

\* read_root(): the body of GET /
read_root == [op |-> "root", root_status |-> "online",
              indexed_messages |-> Len(messages)]

----------------------------------------------------------------------------
(* fetch_and_index *)

\* FormatItems with the two fields of the rendering exchanged
RECURSIVE FormatItems_exchanged(_)
FormatItems_exchanged(items) ==
    IF items = <<>> THEN <<>>
    ELSE LET item == Head(items)
         IN  IF "message" \in DOMAIN item /\ "user_name" \in DOMAIN item
             THEN <<item.message \o ": " \o item.user_name>>
                      \o FormatItems_exchanged(Tail(items))
             ELSE FormatItems_exchanged(Tail(items))

\* lines 55-59: the records holding both fields, rendered "user_name: message"
RECURSIVE FormatItems(_)
FormatItems(items) ==
    IF items = <<>> THEN <<>>
    ELSE LET item == Head(items)
         IN  IF "message" \in DOMAIN item /\ "user_name" \in DOMAIN item
             THEN <<item.user_name \o ": " \o item.message>> \o FormatItems(Tail(items))
             ELSE FormatItems(Tail(items))

Returned(cause) == [ended |-> "returned", cause |-> cause]
Raised(cause) == [ended |-> "raised", cause |-> cause]

\* no call in flight: nothing to remember of the index before it
NoPrev == [messages |-> <<>>, embeddings |-> None]

\* the latest call got no records, or failed after it got them
NoItems == [fetched |-> FALSE, items |-> <<>>, repeated |-> FALSE]

\* no reader has read the index as it is now
NoRead == [op |-> "none"]

\* the call begins and suspends at `await client.get(...)`
fetch_begin ==
    /\ pc = "idle"
    /\ pc' = "get"
    /\ prev' = [messages |-> messages, embeddings |-> embeddings]
    /\ outcome' = [ended |-> "pending", cause |-> ""]
    /\ UNCHANGED <<messages, embeddings, raw, last>>

\* lines 70-73: the get raises an httpx.RequestError
fetch_request_error(e) ==
    /\ pc = "get"
    /\ messages' = <<>>
    /\ pc' = "idle"
    /\ prev' = NoPrev
    /\ outcome' = Returned(e)
    /\ raw' = NoItems
    /\ last' = NoRead
    /\ UNCHANGED embeddings

\* raise_for_status() or response.json() raises: no except clause matches
fetch_other_error(e) ==
    /\ pc = "get"
    /\ pc' = "idle"
    /\ prev' = NoPrev
    /\ outcome' = Raised(e)
    /\ raw' = NoItems
    /\ UNCHANGED <<messages, embeddings, last>>

\* fetch_items with the new messages added to the stored ones
fetch_items_extending(items) ==
    /\ pc = "get"
    /\ messages' = messages \o FormatItems(items)
    /\ IF messages' = <<>>
       THEN pc' = "idle" /\ prev' = NoPrev /\ outcome' = Returned("empty")
       ELSE pc' = "encode" /\ UNCHANGED <<prev, outcome>>
    /\ raw' = [fetched |-> TRUE, items |-> items,
               repeated |-> raw.fetched /\ raw.items = items]
    /\ last' = NoRead
    /\ UNCHANGED embeddings

\* lines 54-63: the records arrive and self.messages is assigned
fetch_items(items) ==
    /\ pc = "get"
    /\ messages' = FormatItems(items)
    /\ IF messages' = <<>>
       THEN pc' = "idle" /\ prev' = NoPrev /\ outcome' = Returned("empty")
       ELSE pc' = "encode" /\ UNCHANGED <<prev, outcome>>
    /\ raw' = [fetched |-> TRUE, items |-> items,
               repeated |-> raw.fetched /\ raw.items = items]
    /\ last' = NoRead
    /\ UNCHANGED embeddings

\* line 67: the embeddings of the new messages are computed and assigned
fetch_encode ==
    /\ pc = "encode"
    /\ embeddings' = Array(encode(messages))
    /\ pc' = "idle"
    /\ prev' = NoPrev
    /\ outcome' = Returned("ok")
    /\ last' = NoRead
    /\ UNCHANGED <<messages, raw>>

\* line 67: self.model.encode raises
fetch_encode_error ==
    /\ pc = "encode"
    /\ pc' = "idle"
    /\ prev' = NoPrev
    /\ outcome' = Raised("EncodeError")
    /\ raw' = NoItems
    /\ UNCHANGED <<messages, embeddings, last>>

----------------------------------------------------------------------------
(* The readers.  retrieve_relevant_context and ask_question run on the     *)
(* event loop, which fetch_and_index holds from line 50 to line 68;        *)
(* read_root is a plain def, run in a worker thread at any time.           *)

OnEventLoop == pc \in { "idle", "get" }

Retrieve(question, top_k) ==
    /\ OnEventLoop
    /\ \E r \in retrieve_relevant_context(question, top_k) :
          last' = [op |-> "retrieve", question |-> question, top_k |-> top_k,
                   raised |-> r.raised, context |-> r.context,
                   picked |-> r.picked, scores |-> r.scores]
    /\ UNCHANGED <<messages, embeddings, pc, prev, outcome, raw>>

\* Ask with the handler of a generator failure emptying the store, as the
\* handler of a fetch failure does
Ask_emptying(question, generator) ==
    /\ OnEventLoop
    /\ last' \in ask_question(question, generator)
    /\ messages' = IF last'.status = StatusGenerationFailed THEN <<>> ELSE messages
    /\ UNCHANGED <<embeddings, pc, prev, outcome, raw>>

Ask(question, generator) ==
    /\ OnEventLoop
    /\ last' \in ask_question(question, generator)
    /\ UNCHANGED <<messages, embeddings, pc, prev, outcome, raw>>

ReadRoot ==
    /\ last' = read_root
    /\ UNCHANGED <<messages, embeddings, pc, prev, outcome, raw>>

----------------------------------------------------------------------------

Init ==
    /\ messages = <<>>
    /\ embeddings = None
    /\ pc = "idle"
    /\ prev = NoPrev
    /\ outcome = [ended |-> "never", cause |-> ""]
    /\ raw = NoItems
    /\ last = NoRead

Next ==
    \/ fetch_begin
    \/ \E e \in RequestErrors : fetch_request_error(e)
    \/ \E e \in OtherFetchErrors : fetch_other_error(e)
    \/ \E items \in ItemLists : fetch_items(items)
    \/ fetch_encode
    \/ fetch_encode_error
    \/ \E question \in Questions, top_k \in TopKs : Retrieve(question, top_k)
    \/ \E question \in Questions, generator \in GeneratorOutcomes : Ask(question, generator)
    \/ ReadRoot

Spec == Init /\ [][Next]_vars

----------------------------------------------------------------------------
(* The states of the index *)

\* number of stored embeddings (None holds none)
EmbeddingCount == IF embeddings.none THEN 0 ELSE Len(embeddings.rows)

\* Empty: no messages and no embeddings, as after construction
IndexEmpty == messages = <<>> /\ EmbeddingCount = 0

\* Ready: at least one message, and the embeddings are those of the messages
IndexReady == messages # <<>> /\ embeddings = Array(encode(messages))

\* a call of fetch_and_index has ended by returning
CallReturned == pc = "idle" /\ outcome.ended = "returned"

----------------------------------------------------------------------------
(* Claims *)

\* C1: after any sequence of fetch_and_index calls, each ending in success,
\* in an empty filtered record set or in a fetch failure, there are as many
\* stored embeddings as stored messages (or both are empty).
C1_AsManyEmbeddingsAsMessages ==
    CallReturned => EmbeddingCount = Len(messages)

\* C2: a fetch_and_index call that fails while fetching (a transport error)
\* leaves messages and embeddings as they were before the call.
C2_FetchFailureKeepsIndex ==
    [][(\E e \in RequestErrors : fetch_request_error(e))
          => (messages' = messages /\ embeddings' = embeddings)]_vars

\* C3: after a fetch_and_index call whose filtered record set is empty the
\* index is Empty, and retrieve_relevant_context returns "" for every
\* question without raising.
C3_EmptyRebuildLeavesEmptyIndex ==
    (pc = "idle" /\ outcome = Returned("empty"))
        => /\ IndexEmpty
           /\ \A question \in Questions :
                 \A r \in retrieve_relevant_context(question, DefaultTopK) :
                     ~r.raised /\ r.context = ""

\* C4: for every index state, question and top_k, retrieve_relevant_context
\* returns at most top_k messages, each with a similarity above the threshold.
C4_AtMostTopKAboveThreshold ==
    (last.op = "retrieve" /\ ~last.raised)
        => /\ Len(last.picked) <= last.top_k
           /\ \A i \in 1 .. Len(last.scores) : AboveThreshold(last.scores[i])

\* C5: the returned messages are in descending order of similarity, and of
\* two messages with equal similarity the one with the lower original index
\* comes first, both in the selection of the top_k and in the output order.
C5_DescendingLowerIndexFirst ==
    (last.op = "retrieve" /\ ~last.raised)
        => LET sims == cosine_similarity(embed(last.question), embeddings.rows)
               Before(a, b) == \/ Less(sims[b], sims[a])
                               \/ Same(sims[a], sims[b]) /\ a < b
               Picked == { last.picked[i] : i \in 1 .. Len(last.picked) }
           IN  /\ \A i, j \in 1 .. Len(last.picked) :
                     i < j => Before(last.picked[i], last.picked[j])
               /\ \A a \in Picked, b \in (1 .. Len(sims)) \ Picked :
                     AboveThreshold(sims[b]) => Before(a, b)

\* C6: when retrieval yields an empty context for a question on a non-empty
\* index, ask_question returns the canned could-not-find answer and the
\* generator is not invoked during the request.
C6_NoMatchSkipsGeneration ==
    (last.op = "ask" /\ last.retrieved /\ last.escaped = "" /\ last.context = "")
        => /\ last.status = StatusOK
           /\ last.answer = NoMatchAnswer
           /\ last.generated = 0

C6_Witness ==
    /\ messages # <<>>
    /\ last.op = "ask" /\ last.retrieved /\ last.context = ""
    /\ last.answer = NoMatchAnswer /\ last.generated = 0

\* C7: a question arriving while the index is Empty is answered with the 503
\* condition, with neither retrieval nor generation run, and a 503 is never
\* returned while the index is Ready.
C7_UnavailableIffEmpty ==
    OnEventLoop =>
        \A question \in Questions, generator \in GeneratorOutcomes :
            \A response \in ask_question(question, generator) :
                /\ IndexEmpty => /\ response.status = StatusUnavailable
                                 /\ ~response.retrieved
                                 /\ response.generated = 0
                /\ response.status = StatusUnavailable => ~IndexReady

C7_Witness ==
    IndexEmpty /\ last.op = "ask" /\ last.status = StatusUnavailable

\* C8: unavailable-index, no-match and generation-failure exclude each other:
\* the canned no-match answer is returned only on a valid Ready index in which
\* no message clears the threshold, never for want of usable embeddings.
C8_NoMatchOnlyOnReadyIndex ==
    (last.op = "ask" /\ last.status = StatusOK /\ last.answer = NoMatchAnswer)
        => /\ IndexReady
           /\ \A i \in 1 .. Len(messages) :
                 ~AboveThreshold(Cosine(embed(last.question), embed(messages[i])))

\* C9: every failure of the generator during ask_question becomes the one
\* generic 500 response, the same whichever failure it was, and no generator
\* exception escapes the handler.
C9_GeneratorFailuresBecomeOne500 ==
    OnEventLoop =>
        \A question \in Questions :
            LET Failing(e) == ask_question(question, [raises |-> e, text |-> <<>>])
                one == Failing(CHOOSE e \in GeneratorFailures : TRUE)
            IN  /\ \A response \in one :
                      response.generated = 1
                          => /\ response.status = StatusGenerationFailed
                             /\ response.detail = GenerationFailedDetail
                             /\ response.answer = <<>>
                             /\ response.escaped = ""
                /\ \A e \in GeneratorFailures : Failing(e) = one

C9_Witness ==
    /\ last.op = "ask" /\ last.generated = 1
    /\ last.status = StatusGenerationFailed
    /\ last.detail = GenerationFailedDetail

\* C10: a reader running while fetch_and_index is in flight sees the complete
\* previous (messages, embeddings) pair or the complete new pair, never new
\* messages with old or missing embeddings.
C10_ReadersSeeWholeIndex ==
    (pc # "idle" /\ last.op = "root")
        => \/ [messages |-> messages, embeddings |-> embeddings] = prev
           \/ embeddings = Array(encode(messages))

\* C11: no failure while fetching raw records crashes the process: for a
\* connection error, a timeout, an HTTP error status and an unparsable body
\* alike, fetch_and_index returns normally.
C11_FetchFailuresReturn ==
    (pc = "idle" /\ outcome.cause \in RequestErrors \cup OtherFetchErrors)
        => outcome.ended = "returned"

\* C12: build is idempotent: a fetch_and_index call that gets the records
\* the call before it got leaves the index, messages and embeddings, as that
\* call left it, so that retrieve_relevant_context gives for every question
\* what it gave after the first of the two.
C12_SecondBuildChangesNothing ==
    [][(pc # "idle" /\ pc' = "idle" /\ outcome'.ended = "returned" /\ raw'.repeated)
          => /\ [messages |-> messages', embeddings |-> embeddings'] = prev
             /\ pc = "get" =>
                   \A question \in Questions :
                       retrieve_relevant_context(question, DefaultTopK)'
                           = retrieve_relevant_context(question, DefaultTopK)]_vars

C12_Witness ==
    /\ CallReturned /\ outcome.cause = "ok"
    /\ raw.repeated /\ Len(messages) > 1

\* C13: when the embedding computation fails during a rebuild of a non-empty
\* record set, messages and embeddings are both what they were before the
\* fetch_and_index call.
C13_EncodeFailureKeepsIndex ==
    [][fetch_encode_error
          => [messages |-> messages', embeddings |-> embeddings'] = prev]_vars

\* C14: ask_question never modifies the index: whatever the request ends
\* in (503, canned no-match answer, generated answer, 500), messages and
\* embeddings are after it what they were before it.
C14_AskLeavesIndexAlone ==
    [][(last'.op = "ask" /\ last' # last)
          => (messages' = messages /\ embeddings' = embeddings)]_vars

C14_Witness ==
    /\ IndexReady
    /\ last.op = "ask" /\ last.generated = 1
    /\ last.status = StatusGenerationFailed

\* C15: after a fetch_and_index call that fetched records, messages is the
\* sequence, in the order of the input, of the renderings
\* "user_name: message" of the records holding both a user_name and a message
\* field; a record lacking either contributes nothing.
HasBothFields(item) == { "user_name", "message" } \subseteq DOMAIN item

C15_MessagesAreTheRenderedRecords ==
    raw.fetched
        => LET kept == SelectSeq(raw.items, HasBothFields)
           IN  messages = [i \in 1 .. Len(kept) |->
                              kept[i].user_name \o ": " \o kept[i].message]

C15_Witness ==
    /\ CallReturned /\ raw.fetched
    /\ messages # <<>> /\ Len(messages) < Len(raw.items)

\* C16: the context returned by retrieve_relevant_context is made of the
\* canonical lines of messages of the current index only, each selected
\* message once, one per line, in descending order of score; retrieval
\* never refers to a position outside the current message sequence.
RECURSIVE Lines(_)
Lines(picked) ==
    IF picked = <<>> THEN ""
    ELSE messages[Head(picked)] \o "\n" \o Lines(Tail(picked))

C16_ContextOfCurrentMessages ==
    last.op = "retrieve"
        => /\ ~last.raised
           /\ \A i \in 1 .. Len(last.picked) : last.picked[i] \in 1 .. Len(messages)
           /\ \A i, j \in 1 .. Len(last.picked) :
                 i < j => /\ last.picked[i] # last.picked[j]
                          /\ ~Less(last.scores[i], last.scores[j])
           /\ last.context = Lines(last.picked)

\* C17: every successful response of ask_question carries a non-empty
\* answer: the canned trouble-generating message when the generator's output
\* is empty once trimmed, and the trimmed output otherwise.
C17_AnswerNeverEmpty ==
    OnEventLoop =>
        \A question \in Questions, text \in GeneratorTexts :
            \A response \in ask_question(question, [raises |-> "", text |-> text]) :
                response.status = StatusOK
                    => /\ response.answer # <<>>
                       /\ response.generated = 1
                             => IF \A i \in 1 .. Len(text) : text[i] \in Whitespace
                                THEN response.answer = TroubleAnswer
                                ELSE /\ response.answer = Strip(text)
                                     /\ Head(response.answer) \notin Whitespace
                                     /\ response.answer[Len(response.answer)] \notin Whitespace

C17_Witness ==
    /\ last.op = "ask" /\ last.generated = 1
    /\ last.status = StatusOK /\ last.answer = TroubleAnswer

====
